---- MODULE Spec2Model ----
(***************************************************************************)
(* AnTube (grumbach/ant_tube): the streaming session of src/main.rs and    *)
(* the playback sink of src/video_streamer.rs.                              *)
(*                                                                         *)
(* The consumer is AntubeApp (its fields, update, connect_and_stream).     *)
(* Every connect_and_stream starts a session: a server-initialisation task *)
(* and run_streaming_task, joined to the consumer by an unbounded channel. *)
(* The three stream-processing functions of main.rs are modelled step by   *)
(* step; only process_stream_with_delayed_pipeline is called by the        *)
(* program (stream_video_data), the two others are checked on their own    *)
(* under SpecFns.                                                          *)
(*                                                                         *)
(* Sizes are counted in units of 20 MiB, so that the 40 MiB prebuffer      *)
(* threshold is 2.  A byte is named by its offset in the asset, a buffer   *)
(* is the sequence of its offsets.                                         *)
(***************************************************************************)
EXTENDS Integers, Sequences, FiniteSets, TLC

\* ------------------------------------------------------------------ bounds
\* Chunks a storage stream yields before it ends, in the application.
MaxChunks == 2
\* Largest chunk of the application's streams, in units; a chunk there is
\* empty or of this size.
MaxChunkSize == 2
\* Chunks, and largest chunk, of the streams handed to a stream-processing
\* function checked on its own.
FnMaxChunks == 4
FnMaxChunkSize == 2

\* Chunks of a stream in the runs that are followed to their end.
LiveMaxChunks == 1
MaxCalls == 4

\* const PREBUFFER_SIZE: usize = 40 * 1024 * 1024, in units of 20 MiB.
PREBUFFER_SIZE == 2
\* const INITIAL_BUFFER_CHUNKS: usize = 3
INITIAL_BUFFER_CHUNKS == 3

\* The sessions of a run: a session, and the one that supersedes it when the
\* user streams again.
Sessions == {1, 2}

\* The chunk sizes of the application's streams, and of the streams handed to
\* a function checked on its own.
ChunkSizes == {0, MaxChunkSize}
FnChunkSizes == 0..FnMaxChunkSize

\* ----------------------------------------------------------------- helpers
RECURSIVE Sum(_)
Sum(s) ==
    IF s = <<>> THEN 0 ELSE Head(s) + Sum(Tail(s))

\* The bytes of a chunk of n units that starts after `off` units of the asset.
ChunkBytes(off, n) ==
    [i \in 1..n |-> off + i]

\* -------------------------------------------------------------- StreamEvent
ServerConnected ==
    [type |-> "ServerConnected", size |-> 0, error |-> ""]

ChunkReceived(n) ==
    [type |-> "ChunkReceived", size |-> n, error |-> ""]

StreamComplete ==
    [type |-> "StreamComplete", size |-> 0, error |-> ""]

StreamError(e) ==
    [type |-> "StreamError", size |-> 0, error |-> e]

VideoStreamerReady ==
    [type |-> "VideoStreamerReady", size |-> 0, error |-> ""]

\* ------------------------------------------------------------ VideoStreamer
\* state: "None" (never constructed), "Playing" (start_pipeline), "Null" (Drop).
\* appsrc: what the AppSrc accepted, in order: buffers, and end-of-stream.
NoStreamer ==
    [state |-> "None", is_eos |-> FALSE, appsrc |-> <<>>]

VideoStreamerNew ==
    [state |-> "Playing", is_eos |-> FALSE, appsrc |-> <<>>]

AppSrcBuffer(chunk) ==
    [kind |-> "buffer", data |-> chunk]

AppSrcEos ==
    [kind |-> "eos", data |-> <<>>]

\* A slip in the streamer: the end-of-stream flag is never consulted.
is_stream_ended_Never(vs) ==
    FALSE

is_stream_ended(vs) ==
    vs.is_eos

\* A slip in the streamer: the flag is set only when the appsrc took the
\* end-of-stream.
signal_end_of_stream_OnSuccess(vs, eos) ==
    [vs  |-> [vs EXCEPT !.is_eos = (@ \/ eos = "Ok"),
                        !.appsrc = IF eos = "Ok" THEN Append(@, AppSrcEos) ELSE @],
     res |-> IF eos = "Ok" THEN "Ok" ELSE "Failed to signal end of stream"]

\* eos: the outcome of appsrc.end_of_stream(), "Ok" or "Err".
signal_end_of_stream(vs, eos) ==
    [vs  |-> [vs EXCEPT !.is_eos = TRUE,
                        !.appsrc = IF eos = "Ok" THEN Append(@, AppSrcEos) ELSE @],
     res |-> IF eos = "Ok" THEN "Ok" ELSE "Failed to signal end of stream"]

\* flow: the outcome of appsrc.push_buffer(), "Ok", "Eos" or "Error".
push_chunk(vs, chunk, flow, eos) ==
    IF is_stream_ended(vs)
    THEN [vs |-> vs, res |-> "Stream has ended"]
    ELSE CASE flow = "Ok"  -> [vs  |-> [vs EXCEPT !.appsrc = Append(@, AppSrcBuffer(chunk))],
                               res |-> "Ok"]
           [] flow = "Eos" -> signal_end_of_stream(vs, eos)
           [] OTHER        -> [vs |-> vs, res |-> "Failed to push buffer to AppSrc"]

\* impl Drop: the pipeline is set to Null.
DropStreamer(vs) ==
    IF vs.state = "Playing" THEN [vs EXCEPT !.state = "Null"] ELSE vs

FlowResults == {"Ok", "Eos", "Error"}
EosResults == {"Ok", "Err"}

\* --------------------------------------------------------------- variables
VARIABLES
    \* AntubeApp
    is_connecting, stream_status, stream_receiver, video_streamer, is_playing,
    current_memory_usage,
    \* the consumer's place in update, and whether this activation asked for another
    app_pc, repaint_requested,
    \* sessions started so far
    spawned,
    \* per session: the server-init channel, the task's place, the event channel
    server_rx, pc, chan,
    \* per session: locals of the stream-processing function
    pulled, buffer, chunk_count, playback_started, sink, result,
    \* per session: the streamer made by create_video_streamer
    first_streamer,
    \* per session: history (every send, every push_chunk call, every
    \* VideoStreamer::new that returned Ok)
    emitted, writes, created,
    \* static COMPLETE_FILE of save_chunk_for_testing
    complete_file

appVars == <<is_connecting, stream_status, stream_receiver, video_streamer,
             is_playing, current_memory_usage, app_pc, repaint_requested>>
taskVars == <<spawned, server_rx, pc, chan>>
fnVars == <<pulled, buffer, chunk_count, playback_started, sink, result>>
histVars == <<emitted, writes, created>>
vars == <<appVars, taskVars, fnVars, first_streamer, histVars, complete_file>>

NewStatus ==
    [is_streaming |-> FALSE, error_message |-> "None",
     total_bytes_received |-> 0, chunks_received |-> 0]

NoFile ==
    [created |-> FALSE, len |-> 0, writers |-> {}]


\* ------------------------------------------------------------------- sends
\* stream_tx.send(ev): Ok while the session's receiver is the one the app holds;
\* once the app has replaced (dropped) the receiver the send returns Err and the
\* event is lost.
\* A slip in the channel: a send succeeds although the receiver was dropped.
SendOk_Always(id) ==
    TRUE

SendOk(id) ==
    stream_receiver = id

\* A slip in the channel: the newest event overtakes the ones still queued.
Send_Overtaking(id, ev) ==
    /\ chan' = [chan EXCEPT ![id] = IF SendOk(id) THEN <<ev>> \o @ ELSE @]
    /\ emitted' = [emitted EXCEPT ![id] = Append(@, ev.type)]

Send(id, ev) ==
    /\ chan' = [chan EXCEPT ![id] = IF SendOk(id) THEN Append(@, ev) ELSE @]
    /\ emitted' = [emitted EXCEPT ![id] = Append(@, ev.type)]

\* ------------------------------------------------------------------ the app
\* AntubeApp::new: every field at its default; a non-empty address (or --test on
\* the local network) calls connect_and_stream at once, which starts session 1.
Init ==
    /\ \E autostart \in BOOLEAN :
        /\ is_connecting = autostart
        /\ stream_receiver = (IF autostart THEN 1 ELSE 0)
        /\ spawned = (IF autostart THEN 1 ELSE 0)
        /\ server_rx = [s \in Sessions |->
                          IF autostart /\ s = 1 THEN "pending" ELSE "none"]
        /\ pc = [s \in Sessions |->
                   IF autostart /\ s = 1 THEN "wait_for_server" ELSE "unspawned"]
    /\ stream_status = NewStatus
    /\ video_streamer = "None"
    /\ is_playing = FALSE
    /\ current_memory_usage = 0
    /\ app_pc = "idle"
    /\ repaint_requested = FALSE
    /\ chan = [s \in Sessions |-> <<>>]
    /\ pulled = [s \in Sessions |-> <<>>]
    /\ buffer = [s \in Sessions |-> <<>>]
    /\ chunk_count = [s \in Sessions |-> 0]
    /\ playback_started = [s \in Sessions |-> FALSE]
    /\ sink = [s \in Sessions |-> NoStreamer]
    /\ result = [s \in Sessions |-> "none"]
    /\ first_streamer = [s \in Sessions |-> NoStreamer]
    /\ emitted = [s \in Sessions |-> <<>>]
    /\ writes = [s \in Sessions |-> <<>>]
    /\ created = [s \in Sessions |-> 0]
    /\ complete_file = NoFile

\* connect_and_stream: the previous state is cleared, the old receiver is
\* replaced (dropped, with what it still held), and the two tasks are spawned.
\* Nothing aborts the tasks of the previous session.
connect_and_stream(id) ==
    /\ current_memory_usage' = 0
    /\ video_streamer' = "None"
    /\ is_connecting' = TRUE
    /\ stream_status' = NewStatus
    /\ server_rx' = [server_rx EXCEPT ![id] = "pending"]
    /\ stream_receiver' = id
    /\ chan' = [s \in Sessions |-> IF s = stream_receiver THEN <<>> ELSE chan[s]]
    /\ pc' = [pc EXCEPT ![id] = "wait_for_server"]
    /\ spawned' = id
    /\ UNCHANGED is_playing

\* The fields of AntubeApp that update's match on an event reads and writes.
AppFields ==
    [is_connecting |-> is_connecting, stream_status |-> stream_status,
     video_streamer |-> video_streamer, is_playing |-> is_playing,
     current_memory_usage |-> current_memory_usage]

\* A slip in the ServerConnected arm: is_connecting is left as it was.
OnServerConnected_StillConnecting(app) ==
    [app EXCEPT !.stream_status.is_streaming = TRUE]

\* update, lines 123-126.
OnServerConnected(app) ==
    [app EXCEPT !.is_connecting = FALSE, !.stream_status.is_streaming = TRUE]

\* A slip in the ChunkReceived arm: the two counters swapped.
OnChunkReceived_Swapped(app, size) ==
    [app EXCEPT !.stream_status.chunks_received = @ + size,
                !.stream_status.total_bytes_received = @ + 1,
                !.current_memory_usage =
                    IF app.video_streamer # "None" THEN 0 ELSE @]

\* update, lines 127-133.  get_memory_usage sums chunk_queue, which nothing
\* ever fills: it returns 0.
OnChunkReceived(app, size) ==
    [app EXCEPT !.stream_status.chunks_received = @ + 1,
                !.stream_status.total_bytes_received = @ + size,
                !.current_memory_usage =
                    IF app.video_streamer # "None" THEN 0 ELSE @]

\* update, lines 134-136.
OnVideoStreamerReady(app) ==
    [app EXCEPT !.is_playing = TRUE]

\* A slip in the StreamComplete arm: the flags are left as they were.
OnStreamComplete_Ignored(app) ==
    app

\* update, lines 137-140.
OnStreamComplete(app) ==
    [app EXCEPT !.stream_status.is_streaming = FALSE, !.is_connecting = FALSE]

\* A slip in the StreamError arm: is_streaming left as it was.
OnStreamError_StillStreaming(app, error) ==
    [app EXCEPT !.is_connecting = FALSE,
                !.stream_status.error_message = error]

\* update, lines 141-145.
OnStreamError(app, error) ==
    [app EXCEPT !.stream_status.is_streaming = FALSE, !.is_connecting = FALSE,
                !.stream_status.error_message = error]

\* The match of update on one received event.
Applied(app, ev) ==
    CASE ev.type = "ServerConnected"    -> OnServerConnected(app)
      [] ev.type = "ChunkReceived"      -> OnChunkReceived(app, ev.size)
      [] ev.type = "VideoStreamerReady" -> OnVideoStreamerReady(app)
      [] ev.type = "StreamComplete"     -> OnStreamComplete(app)
      [] ev.type = "StreamError"        -> OnStreamError(app, ev.error)

ApplyEvent(ev) ==
    LET app == Applied(AppFields, ev) IN
    /\ is_connecting' = app.is_connecting
    /\ stream_status' = app.stream_status
    /\ is_playing' = app.is_playing
    /\ current_memory_usage' = app.current_memory_usage

\* update, lines 108-112: the activation starts and asks for a repaint while
\* streaming or connecting.
UpdateBegin ==
    /\ app_pc = "idle"
    /\ repaint_requested' = (stream_status.is_streaming \/ is_connecting)
    /\ app_pc' = "events"
    /\ UNCHANGED <<is_connecting, stream_status, stream_receiver, video_streamer,
                   is_playing, current_memory_usage>>
    /\ UNCHANGED <<taskVars, fnVars, first_streamer, histVars, complete_file>>

\* update, lines 120-147: one turn of `while let Ok(event) = receiver.try_recv()`.
UpdateRecv ==
    /\ app_pc = "events"
    /\ stream_receiver # 0
    /\ chan[stream_receiver] # <<>>
    /\ ApplyEvent(Head(chan[stream_receiver]))
    /\ chan' = [chan EXCEPT ![stream_receiver] = Tail(@)]
    /\ UNCHANGED <<stream_receiver, video_streamer, app_pc, repaint_requested>>
    /\ UNCHANGED <<spawned, server_rx, pc>>
    /\ UNCHANGED <<fnVars, first_streamer, histVars, complete_file>>

\* A slip in the loop of update: `if let` for `while let`, the loop is left
\* whatever is still queued.
DrainDone_Early ==
    app_pc = "events"

\* try_recv returns Err (nothing queued, or no receiver): the loop is left.
DrainDone ==
    /\ app_pc = "events"
    /\ stream_receiver # 0 => chan[stream_receiver] = <<>>

\* update, line 148: try_recv returned Err and the loop is left for the panels;
\* a task may still send before the Stream button is looked at.
UpdateDrained ==
    /\ DrainDone
    /\ app_pc' = "panels"
    /\ UNCHANGED <<is_connecting, stream_status, stream_receiver, video_streamer,
                   is_playing, current_memory_usage, repaint_requested>>
    /\ UNCHANGED <<taskVars, fnVars, first_streamer, histVars, complete_file>>

\* update, lines 150-246, the Stream button not clicked.
UpdateEnd ==
    /\ app_pc = "panels"
    /\ app_pc' = "idle"
    /\ UNCHANGED <<is_connecting, stream_status, stream_receiver, video_streamer,
                   is_playing, current_memory_usage, repaint_requested>>
    /\ UNCHANGED <<taskVars, fnVars, first_streamer, histVars, complete_file>>

\* update, lines 175-177: the Stream button clicked with an address typed in.
UpdateClick ==
    /\ app_pc = "panels"
    /\ spawned + 1 \in Sessions
    /\ connect_and_stream(spawned + 1)
    /\ app_pc' = "idle"
    /\ UNCHANGED repaint_requested
    /\ UNCHANGED <<fnVars, first_streamer, histVars, complete_file>>

\* --------------------------------------------------------- the session tasks
\* The task spawned at lines 267-270: Server::new ends Ok or Err and the result
\* is sent; "Closed" is the task ending without a send (the sender is dropped).
ServerNew(id) ==
    /\ server_rx[id] = "pending"
    /\ \E r \in {"Ok", "Err", "Closed"} :
         server_rx' = [server_rx EXCEPT ![id] = r]
    /\ UNCHANGED <<spawned, pc, chan>>
    /\ UNCHANGED <<appVars, fnVars, first_streamer, histVars, complete_file>>

\* A slip in run_streaming_task: the task goes on after wait_for_server has
\* reported a failure.
WaitForServer_GoesOn(id) ==
    /\ pc[id] = "wait_for_server"
    /\ server_rx[id] \in {"Ok", "Err", "Closed"}
    /\ CASE server_rx[id] = "Ok" -> Send(id, ServerConnected)
         [] server_rx[id] = "Err" -> Send(id, StreamError("Error initializing client"))
         [] OTHER -> Send(id, StreamError("Server initialization failed"))
    /\ pc' = [pc EXCEPT ![id] = "create_video_streamer"]
    /\ UNCHANGED <<spawned, server_rx, writes, created>>
    /\ UNCHANGED <<appVars, fnVars, first_streamer, complete_file>>

\* wait_for_server, called first by run_streaming_task.
WaitForServer(id) ==
    /\ pc[id] = "wait_for_server"
    /\ server_rx[id] \in {"Ok", "Err", "Closed"}
    /\ CASE server_rx[id] = "Ok" ->
              /\ Send(id, ServerConnected)
              /\ pc' = [pc EXCEPT ![id] = "create_video_streamer"]
         [] server_rx[id] = "Err" ->
              /\ Send(id, StreamError("Error initializing client"))
              /\ pc' = [pc EXCEPT ![id] = "done"]
         [] OTHER ->
              /\ Send(id, StreamError("Server initialization failed"))
              /\ pc' = [pc EXCEPT ![id] = "done"]
    /\ UNCHANGED <<spawned, server_rx, writes, created>>
    /\ UNCHANGED <<appVars, fnVars, first_streamer, complete_file>>

\* A slip in create_video_streamer: a failed construction ends the task
\* without a StreamError.
CreateVideoStreamer_Silent(id) ==
    /\ pc[id] = "create_video_streamer"
    /\ \/ /\ first_streamer' = [first_streamer EXCEPT ![id] = VideoStreamerNew]
          /\ created' = [created EXCEPT ![id] = @ + 1]
          /\ Send(id, VideoStreamerReady)
          /\ pc' = [pc EXCEPT ![id] = "stream_data"]
       \/ /\ pc' = [pc EXCEPT ![id] = "done"]
          /\ UNCHANGED <<first_streamer, created, chan, emitted>>
    /\ UNCHANGED <<spawned, server_rx, writes>>
    /\ UNCHANGED <<appVars, fnVars, complete_file>>

\* create_video_streamer, called second by run_streaming_task.
CreateVideoStreamer(id) ==
    /\ pc[id] = "create_video_streamer"
    /\ \/ /\ first_streamer' = [first_streamer EXCEPT ![id] = VideoStreamerNew]
          /\ created' = [created EXCEPT ![id] = @ + 1]
          /\ Send(id, VideoStreamerReady)
          /\ pc' = [pc EXCEPT ![id] = "stream_data"]
       \/ /\ Send(id, StreamError("Failed to create video streamer"))
          /\ pc' = [pc EXCEPT ![id] = "done"]
          /\ UNCHANGED <<first_streamer, created>>
    /\ UNCHANGED <<spawned, server_rx, writes>>
    /\ UNCHANGED <<appVars, fnVars, complete_file>>

\* stream_video_data, lines 341-347: server.stream_data(&address).
StreamData(id) ==
    /\ pc[id] = "stream_data"
    /\ \/ /\ pc' = [pc EXCEPT ![id] = "collect"]
          /\ UNCHANGED <<chan, emitted, first_streamer>>
       \/ \E e \in {"Invalid address format", "Failed to start streaming"} :
          /\ Send(id, StreamError(e))
          /\ first_streamer' = [first_streamer EXCEPT ![id] = DropStreamer(@)]
          /\ pc' = [pc EXCEPT ![id] = "done"]
    /\ UNCHANGED <<spawned, server_rx, writes, created>>
    /\ UNCHANGED <<appVars, fnVars, complete_file>>


\* ------------------------------------------- the stream-processing functions
\* save_chunk_for_testing: the first call creates /tmp/antube_complete.mp4 and
\* keeps it open in a process-wide static; every call appends the chunk.  The
\* file is kept as its length and the sessions whose bytes it holds.
save_chunk_for_testing(id, n) ==
    [created |-> TRUE,
     len     |-> complete_file.len + n,
     writers |-> complete_file.writers \cup {id}]

\* The function returns r ("Ok" or the error); its locals are dropped, and with
\* them the streamer it owns.
Return(id, r, vs) ==
    /\ result' = [result EXCEPT ![id] = r]
    /\ sink' = [sink EXCEPT ![id] = vs]
    /\ buffer' = [buffer EXCEPT ![id] = <<>>]
    /\ pc' = [pc EXCEPT ![id] = "returned"]

\* A slip at the send: the size of the chunk taken for a count of chunks.
ReportedSize_One(chunk) ==
    1

\* The size a ChunkReceived event carries: chunk.len() (lines 397, 461, 509).
ReportedSize(chunk) ==
    Len(chunk)

\* A slip in the second phase: only the first PREBUFFER_SIZE units are pushed.
DelayedPayload_Prefix(buf) ==
    IF Len(buf) > PREBUFFER_SIZE THEN SubSeq(buf, 1, PREBUFFER_SIZE) ELSE buf

RECURSIVE Reverse(_)
Reverse(seq) ==
    IF seq = <<>> THEN <<>> ELSE Append(Reverse(Tail(seq)), Head(seq))

\* A slip in the second phase: the buffer is pushed back to front.
DelayedPayload_Reversed(buf) ==
    Reverse(buf)

\* What the second phase of process_stream_with_delayed_pipeline pushes (line 524).
DelayedPayload(buf) ==
    buf

\* process_stream_with_delayed_pipeline, lines 494-514: one turn of the loop.
\* The stream yields a chunk of n units (at most `limit` of them, n in `sizes`),
\* an error, or ends.
DelayedPull(id, limit, sizes) ==
    /\ pc[id] = "collect"
    /\ \/ \E n \in sizes :
            /\ Len(pulled[id]) < limit
            /\ pulled' = [pulled EXCEPT ![id] = Append(@, n)]
            /\ chunk_count' = [chunk_count EXCEPT ![id] = @ + 1]
            /\ complete_file' = save_chunk_for_testing(id, n)
            /\ buffer' = [buffer EXCEPT ![id] = @ \o ChunkBytes(Sum(pulled[id]), n)]
            /\ Send(id, ChunkReceived(ReportedSize(ChunkBytes(Sum(pulled[id]), n))))
            /\ pc' = [pc EXCEPT ![id] = IF SendOk(id) THEN "collect"
                                                      ELSE "create_pipeline"]
            /\ UNCHANGED <<sink, result>>
       \/ /\ Return(id, "Failed to fetch chunk", sink[id])
          /\ UNCHANGED <<pulled, chunk_count, complete_file, chan, emitted>>
       \/ /\ pc' = [pc EXCEPT ![id] = "create_pipeline"]
          /\ UNCHANGED <<pulled, chunk_count, complete_file, chan, emitted,
                         buffer, sink, result>>
    /\ UNCHANGED <<spawned, server_rx, playback_started, first_streamer,
                   writes, created>>
    /\ UNCHANGED appVars

\* lines 519-531, the second phase: VideoStreamer::new(), the whole buffer
\* pushed with push_chunk_to_streamer, then signal_end_of_stream; each may fail
\* and make the function return Err, dropping the streamer.
DelayedSecondPhase(id) ==
    /\ pc[id] = "create_pipeline"
    /\ \/ /\ Return(id, "Failed to create video streamer", sink[id])
          /\ UNCHANGED <<created, writes>>
       \/ \E flow \in FlowResults, eos1 \in EosResults, eos2 \in EosResults :
            LET payload == DelayedPayload(buffer[id])
                p == push_chunk(VideoStreamerNew, payload, flow, eos1)
                e == signal_end_of_stream(p.vs, eos2)
            IN
            /\ created' = [created EXCEPT ![id] = @ + 1]
            /\ writes' = [writes EXCEPT ![id] = Append(@, payload)]
            /\ IF p.res # "Ok"
               THEN Return(id, "Failed to push chunk to video streamer",
                           DropStreamer(p.vs))
               ELSE IF e.res # "Ok"
               THEN Return(id, "Failed to signal end of stream",
                           DropStreamer(e.vs))
               ELSE /\ sink' = [sink EXCEPT ![id] = e.vs]
                    /\ pc' = [pc EXCEPT ![id] = "keep_alive"]
                    /\ UNCHANGED <<buffer, result>>
    /\ UNCHANGED <<spawned, server_rx, chan, pulled, chunk_count,
                   playback_started, first_streamer, emitted, complete_file>>
    /\ UNCHANGED appVars

\* lines 535-538: the two-minute sleep ends and the function returns Ok; the
\* streamer is a local and is dropped there.
DelayedKeepAlive(id) ==
    /\ pc[id] = "keep_alive"
    /\ Return(id, "Ok", DropStreamer(sink[id]))
    /\ UNCHANGED <<spawned, server_rx, chan, pulled, chunk_count,
                   playback_started, first_streamer, histVars, complete_file>>
    /\ UNCHANGED appVars

\* A slip in stream_video_data: StreamComplete is sent whatever the result.
StreamVideoDataReturn_AlwaysComplete(id) ==
    /\ pc[id] = "returned"
    /\ Send(id, StreamComplete)
    /\ first_streamer' = [first_streamer EXCEPT ![id] = DropStreamer(@)]
    /\ pc' = [pc EXCEPT ![id] = "done"]
    /\ UNCHANGED <<spawned, server_rx, writes, created>>
    /\ UNCHANGED <<appVars, fnVars, complete_file>>

\* A slip in stream_video_data: the task writes the end of the session into
\* the status itself instead of sending the event.
StreamVideoDataReturn_Direct(id) ==
    /\ pc[id] = "returned"
    /\ stream_status' = [stream_status EXCEPT !.is_streaming = FALSE]
    /\ first_streamer' = [first_streamer EXCEPT ![id] = DropStreamer(@)]
    /\ pc' = [pc EXCEPT ![id] = "done"]
    /\ UNCHANGED <<spawned, server_rx, chan, histVars>>
    /\ UNCHANGED <<is_connecting, stream_receiver, video_streamer, is_playing,
                   current_memory_usage, app_pc, repaint_requested>>
    /\ UNCHANGED <<fnVars, complete_file>>

\* stream_video_data, lines 349-355: the result of the stream-processing
\* function becomes the last event; _video_streamer is dropped at the end.
StreamVideoDataReturn(id) ==
    /\ pc[id] = "returned"
    /\ IF result[id] = "Ok"
       THEN Send(id, StreamComplete)
       ELSE Send(id, StreamError(result[id]))
    /\ first_streamer' = [first_streamer EXCEPT ![id] = DropStreamer(@)]
    /\ pc' = [pc EXCEPT ![id] = "done"]
    /\ UNCHANGED <<spawned, server_rx, writes, created>>
    /\ UNCHANGED <<appVars, fnVars, complete_file>>

\* --------------------------------- the two functions the program never calls
\* process_stream_with_prebuffering, line 444: the buffer has reached the
\* prebuffer size.
ThresholdReached(buf) ==
    Len(buf) >= PREBUFFER_SIZE

\* One turn of a loop that may push to the borrowed streamer: the chunk of n
\* units is counted and saved, `keep` becomes the buffer, and when `pushes`,
\* `payload` goes through push_chunk_to_streamer (an Err returns at once, by `?`)
\* before ChunkReceived is sent; a failed send breaks out of the loop to `tail`.
PullAndPush(id, n, keep, pushes, payload, started, flow, eos, loop, tail) ==
    LET r == push_chunk(sink[id], payload, flow, eos) IN
    /\ pulled' = [pulled EXCEPT ![id] = Append(@, n)]
    /\ chunk_count' = [chunk_count EXCEPT ![id] = @ + 1]
    /\ complete_file' = save_chunk_for_testing(id, n)
    /\ writes' = [writes EXCEPT ![id] = IF pushes THEN Append(@, payload) ELSE @]
    /\ IF pushes /\ r.res # "Ok"
       THEN /\ Return(id, "Failed to push chunk to video streamer", r.vs)
            /\ UNCHANGED <<playback_started, chan, emitted>>
       ELSE /\ sink' = [sink EXCEPT ![id] = IF pushes THEN r.vs ELSE @]
            /\ buffer' = [buffer EXCEPT ![id] = keep]
            /\ playback_started' = [playback_started EXCEPT ![id] = started]
            /\ Send(id, ChunkReceived(ReportedSize(ChunkBytes(Sum(pulled[id]), n))))
            /\ pc' = [pc EXCEPT ![id] = IF SendOk(id) THEN loop ELSE tail]
            /\ UNCHANGED result

\* After a loop: what is left in the buffer is pushed, and the function returns.
PushRest(id, pushes, flow, eos) ==
    LET r == push_chunk(sink[id], buffer[id], flow, eos) IN
    /\ writes' = [writes EXCEPT ![id] = IF pushes THEN Append(@, buffer[id]) ELSE @]
    /\ IF ~pushes
       THEN Return(id, "Ok", sink[id])
       ELSE IF r.res # "Ok"
       THEN Return(id, "Failed to push chunk to video streamer", r.vs)
       ELSE Return(id, "Ok", r.vs)

\* process_stream_with_prebuffering, lines 428-466: one turn of the loop.
PrebufPull(id, limit, sizes) ==
    /\ pc[id] = "prebuffering"
    /\ \/ \E n \in sizes, flow \in FlowResults, eos \in EosResults :
            LET chunk == ChunkBytes(Sum(pulled[id]), n)
                buf == buffer[id] \o chunk
                bulk == ~playback_started[id] /\ ThresholdReached(buf)
            IN
            /\ Len(pulled[id]) < limit
            /\ IF playback_started[id]
               THEN PullAndPush(id, n, buffer[id], TRUE, chunk, TRUE, flow, eos,
                                "prebuffering", "prebuffering_rest")
               ELSE PullAndPush(id, n, IF bulk THEN <<>> ELSE buf, bulk, buf, bulk,
                                flow, eos, "prebuffering", "prebuffering_rest")
       \/ /\ Return(id, "Failed to fetch chunk", sink[id])
          /\ UNCHANGED <<pulled, chunk_count, complete_file, writes,
                         playback_started, chan, emitted>>
       \/ /\ pc' = [pc EXCEPT ![id] = "prebuffering_rest"]
          /\ UNCHANGED <<pulled, chunk_count, complete_file, writes,
                         playback_started, chan, emitted, buffer, sink, result>>
    /\ UNCHANGED <<spawned, server_rx, first_streamer, created>>
    /\ UNCHANGED appVars

\* process_stream_with_prebuffering, lines 468-477.
PrebufRest(id) ==
    /\ pc[id] = "prebuffering_rest"
    /\ \E flow \in FlowResults, eos \in EosResults :
         PushRest(id, ~playback_started[id] /\ buffer[id] # <<>>, flow, eos)
    /\ UNCHANGED <<spawned, server_rx, chan, pulled, chunk_count,
                   playback_started, first_streamer, emitted, created,
                   complete_file>>
    /\ UNCHANGED appVars

\* process_stream_chunks, lines 366-402: one turn of the loop.
ChunksPull(id, limit, sizes) ==
    /\ pc[id] = "buffer_chunks"
    /\ \/ \E n \in sizes, flow \in FlowResults, eos \in EosResults :
            LET chunk == ChunkBytes(Sum(pulled[id]), n)
                buf == buffer[id] \o chunk
                count == chunk_count[id] + 1
            IN
            /\ Len(pulled[id]) < limit
            /\ IF count <= INITIAL_BUFFER_CHUNKS
               THEN PullAndPush(id, n,
                                IF count = INITIAL_BUFFER_CHUNKS THEN <<>> ELSE buf,
                                count = INITIAL_BUFFER_CHUNKS, buf, FALSE,
                                flow, eos, "buffer_chunks", "buffer_chunks_rest")
               ELSE PullAndPush(id, n, buffer[id], TRUE, chunk, FALSE, flow, eos,
                                "buffer_chunks", "buffer_chunks_rest")
       \/ /\ Return(id, "Failed to fetch chunk", sink[id])
          /\ UNCHANGED <<pulled, chunk_count, complete_file, writes,
                         playback_started, chan, emitted>>
       \/ /\ pc' = [pc EXCEPT ![id] = "buffer_chunks_rest"]
          /\ UNCHANGED <<pulled, chunk_count, complete_file, writes,
                         playback_started, chan, emitted, buffer, sink, result>>
    /\ UNCHANGED <<spawned, server_rx, first_streamer, created>>
    /\ UNCHANGED appVars

\* process_stream_chunks, lines 404-410.
ChunksRest(id) ==
    /\ pc[id] = "buffer_chunks_rest"
    /\ \E flow \in FlowResults, eos \in EosResults :
         PushRest(id, buffer[id] # <<>>, flow, eos)
    /\ UNCHANGED <<spawned, server_rx, chan, pulled, chunk_count,
                   playback_started, first_streamer, emitted, created,
                   complete_file>>
    /\ UNCHANGED appVars

\* The receiver of the events is dropped while a function runs.
ReceiverDropped ==
    /\ stream_receiver # 0
    /\ chan' = [chan EXCEPT ![stream_receiver] = <<>>]
    /\ stream_receiver' = 0
    /\ UNCHANGED <<is_connecting, stream_status, video_streamer, is_playing,
                   current_memory_usage, app_pc, repaint_requested>>
    /\ UNCHANGED <<spawned, server_rx, pc>>
    /\ UNCHANGED <<fnVars, first_streamer, histVars, complete_file>>

\* ---------------------------------------------------------- the application
Next ==
    \/ UpdateBegin
    \/ UpdateRecv
    \/ UpdateDrained
    \/ UpdateEnd
    \/ UpdateClick
    \/ \E id \in Sessions :
         \/ ServerNew(id)
         \/ WaitForServer(id)
         \/ CreateVideoStreamer(id)
         \/ StreamData(id)
         \/ DelayedPull(id, MaxChunks, ChunkSizes)
         \/ DelayedSecondPhase(id)
         \/ DelayedKeepAlive(id)
         \/ StreamVideoDataReturn(id)

Spec ==
    Init /\ [][Next]_vars

\* ------------------------------ a stream-processing function on its own
\* One of the three functions is called once, as session 1, with a stream of at
\* most FnMaxChunks chunks, a sender whose receiver is alive, and (for the two
\* functions that borrow one) a streamer that was just constructed.
InitFns ==
    /\ \E f \in {"collect", "prebuffering", "buffer_chunks"} :
         /\ pc = [s \in Sessions |-> IF s = 1 THEN f ELSE "unspawned"]
         /\ sink = [s \in Sessions |->
                      IF s = 1 /\ f # "collect" THEN VideoStreamerNew
                                                 ELSE NoStreamer]
         /\ created = [s \in Sessions |-> IF s = 1 /\ f # "collect" THEN 1 ELSE 0]
    /\ is_connecting = FALSE
    /\ stream_status = [NewStatus EXCEPT !.is_streaming = TRUE]
    /\ stream_receiver = 1
    /\ spawned = 1
    /\ server_rx = [s \in Sessions |-> IF s = 1 THEN "Ok" ELSE "none"]
    /\ video_streamer = "None"
    /\ is_playing = FALSE
    /\ current_memory_usage = 0
    /\ app_pc = "idle"
    /\ repaint_requested = FALSE
    /\ chan = [s \in Sessions |-> <<>>]
    /\ pulled = [s \in Sessions |-> <<>>]
    /\ buffer = [s \in Sessions |-> <<>>]
    /\ chunk_count = [s \in Sessions |-> 0]
    /\ playback_started = [s \in Sessions |-> FALSE]
    /\ result = [s \in Sessions |-> "none"]
    /\ first_streamer = [s \in Sessions |-> NoStreamer]
    /\ emitted = [s \in Sessions |-> <<>>]
    /\ writes = [s \in Sessions |-> <<>>]
    /\ complete_file = NoFile

NextFns ==
    \/ DelayedPull(1, FnMaxChunks, FnChunkSizes)
    \/ DelayedSecondPhase(1)
    \/ DelayedKeepAlive(1)
    \/ PrebufPull(1, FnMaxChunks, FnChunkSizes)
    \/ PrebufRest(1)
    \/ ChunksPull(1, FnMaxChunks, FnChunkSizes)
    \/ ChunksRest(1)
    \/ ReceiverDropped

SpecFns ==
    InitFns /\ [][NextFns]_vars

\* ------------------------------------------------ a VideoStreamer on its own
\* A caller holds one streamer, just constructed, and makes at most MaxCalls
\* calls of push_chunk and signal_end_of_stream on it, in any order.
\* chunk_count[1] counts the calls, writes[1] keeps the chunks given to
\* push_chunk, result[1] what the last call returned.
InitStreamer ==
    /\ pc = [s \in Sessions |-> IF s = 1 THEN "streamer" ELSE "unspawned"]
    /\ sink = [s \in Sessions |-> IF s = 1 THEN VideoStreamerNew ELSE NoStreamer]
    /\ created = [s \in Sessions |-> IF s = 1 THEN 1 ELSE 0]
    /\ is_connecting = FALSE
    /\ stream_status = NewStatus
    /\ stream_receiver = 0
    /\ spawned = 1
    /\ server_rx = [s \in Sessions |-> "none"]
    /\ video_streamer = "None"
    /\ is_playing = FALSE
    /\ current_memory_usage = 0
    /\ app_pc = "idle"
    /\ repaint_requested = FALSE
    /\ chan = [s \in Sessions |-> <<>>]
    /\ pulled = [s \in Sessions |-> <<>>]
    /\ buffer = [s \in Sessions |-> <<>>]
    /\ chunk_count = [s \in Sessions |-> 0]
    /\ playback_started = [s \in Sessions |-> FALSE]
    /\ result = [s \in Sessions |-> "none"]
    /\ first_streamer = [s \in Sessions |-> NoStreamer]
    /\ emitted = [s \in Sessions |-> <<>>]
    /\ writes = [s \in Sessions |-> <<>>]
    /\ complete_file = NoFile

\* streamer.push_chunk(chunk)
CallPushChunk ==
    /\ pc[1] = "streamer"
    /\ chunk_count[1] < MaxCalls
    /\ \E n \in ChunkSizes, flow \in FlowResults, eos \in EosResults :
         LET chunk == ChunkBytes(Sum([i \in 1..Len(writes[1]) |-> Len(writes[1][i])]), n)
             r == push_chunk(sink[1], chunk, flow, eos)
         IN /\ sink' = [sink EXCEPT ![1] = r.vs]
            /\ result' = [result EXCEPT ![1] = r.res]
            /\ writes' = [writes EXCEPT ![1] = Append(@, chunk)]
    /\ chunk_count' = [chunk_count EXCEPT ![1] = @ + 1]
    /\ UNCHANGED <<pulled, buffer, playback_started>>
    /\ UNCHANGED <<appVars, taskVars, first_streamer, emitted, created, complete_file>>

\* streamer.signal_end_of_stream()
CallSignalEos ==
    /\ pc[1] = "streamer"
    /\ chunk_count[1] < MaxCalls
    /\ \E eos \in EosResults :
         LET r == signal_end_of_stream(sink[1], eos)
         IN /\ sink' = [sink EXCEPT ![1] = r.vs]
            /\ result' = [result EXCEPT ![1] = r.res]
    /\ chunk_count' = [chunk_count EXCEPT ![1] = @ + 1]
    /\ UNCHANGED <<pulled, buffer, playback_started>>
    /\ UNCHANGED <<appVars, taskVars, first_streamer, histVars, complete_file>>

NextStreamer ==
    \/ CallPushChunk
    \/ CallSignalEos

SpecStreamer ==
    InitStreamer /\ [][NextStreamer]_vars

\* ------------------------------------------- the tasks on the runtime's workers
\* A step of the two tasks connect_and_stream spawns for session id.
TaskStep(id) ==
    \/ ServerNew(id)
    \/ WaitForServer(id)
    \/ CreateVideoStreamer(id)
    \/ StreamData(id)
    \/ DelayedPull(id, MaxChunks, ChunkSizes)
    \/ DelayedSecondPhase(id)
    \/ DelayedKeepAlive(id)
    \/ StreamVideoDataReturn(id)

\* #[tokio::main] builds one runtime whose worker threads are as many as the
\* machine has cores, while the user may start any number of sessions: the
\* runs kept here are those with one worker fewer than sessions.
WorkerThreads ==
    Cardinality(Sessions) - 1

\* Both tasks of a session are tokio::spawn tasks.  From the return of
\* server.stream_data on, run_streaming_task has no .await left: the chunk
\* iterator and std::thread::sleep block the worker thread that polls it, and
\* the worker is given back only when the task ends.
OnWorker(id) ==
    pc[id] \in {"collect", "create_pipeline", "keep_alive", "returned"}

Busy ==
    {id \in Sessions : OnWorker(id)}

\* A worker thread can run the next step of session id.
WorkerFree(id) ==
    OnWorker(id) \/ Cardinality(Busy) < WorkerThreads

\* update runs on the main thread, outside the runtime's workers.
NextWorkers ==
    \/ UpdateBegin
    \/ UpdateRecv
    \/ UpdateDrained
    \/ UpdateEnd
    \/ UpdateClick
    \/ \E id \in Sessions :
         \/ WorkerFree(id) /\ ServerNew(id)
         \/ WorkerFree(id) /\ WaitForServer(id)
         \/ WorkerFree(id) /\ CreateVideoStreamer(id)
         \/ WorkerFree(id) /\ StreamData(id)
         \/ WorkerFree(id) /\ DelayedPull(id, MaxChunks, ChunkSizes)
         \/ WorkerFree(id) /\ DelayedSecondPhase(id)
         \/ WorkerFree(id) /\ DelayedKeepAlive(id)
         \/ WorkerFree(id) /\ StreamVideoDataReturn(id)

SpecWorkers ==
    Init /\ [][NextWorkers]_vars

\* ------------------------------------------------- the application, scheduled
\* The runtime runs every spawned task that can take a step (a pull returns, a
\* sleep ends), and egui keeps activating update and lets each activation run
\* to its end.  Nothing makes the user click Stream.
\* Streams of at most LiveMaxChunks chunks, all of the largest size, are
\* followed to the end of the run.
TaskStepLive(id) ==
    \/ ServerNew(id)
    \/ WaitForServer(id)
    \/ CreateVideoStreamer(id)
    \/ StreamData(id)
    \/ DelayedPull(id, LiveMaxChunks, {MaxChunkSize})
    \/ DelayedSecondPhase(id)
    \/ DelayedKeepAlive(id)
    \/ StreamVideoDataReturn(id)

NextLive ==
    \/ UpdateBegin
    \/ UpdateRecv
    \/ UpdateDrained
    \/ UpdateEnd
    \/ UpdateClick
    \/ \E id \in Sessions :
         \/ ServerNew(id)
         \/ WaitForServer(id)
         \/ CreateVideoStreamer(id)
         \/ StreamData(id)
         \/ DelayedPull(id, LiveMaxChunks, {MaxChunkSize})
         \/ DelayedSecondPhase(id)
         \/ DelayedKeepAlive(id)
         \/ StreamVideoDataReturn(id)

Fairness ==
    /\ WF_vars(UpdateBegin)
    /\ WF_vars(UpdateRecv)
    /\ WF_vars(UpdateDrained)
    /\ WF_vars(UpdateEnd)
    /\ \A id \in Sessions : WF_vars(TaskStepLive(id))

SpecLive ==
    Init /\ [][NextLive]_vars /\ Fairness

\* ================================================================== claims
Count(seq, x) ==
    Cardinality({i \in DOMAIN seq : seq[i] = x})

\* The state the consumer derives from the events it has applied.
Phase ==
    LET s == stream_status.is_streaming
        e == stream_status.error_message # "None"
    IN CASE is_connecting /\ ~s /\ ~e   -> "Connecting"
         [] ~is_connecting /\ s /\ ~e   -> "Streaming"
         [] ~is_connecting /\ ~s /\ ~e  -> "Completed"
         [] ~is_connecting /\ ~s /\ e   -> "Error"
         [] OTHER                       -> "Invalid"

PhaseMoves ==
    {<<"Connecting", "Streaming">>, <<"Connecting", "Error">>,
     <<"Streaming", "Completed">>, <<"Streaming", "Error">>}
      \cup {<<p, p>> : p \in {"Connecting", "Streaming", "Completed", "Error"}}

\* C1: while the app holds the receiver of one session, every step moves the
\* derived state along Connecting -> Streaming -> {Completed, Error} or
\* Connecting -> Error (or leaves it); a terminal state is never left, and a
\* new session starts in Connecting.
C1_SessionAutomaton ==
    [][IF stream_receiver' = stream_receiver
       THEN stream_receiver # 0 => <<Phase, Phase'>> \in PhaseMoves
       ELSE Phase' = "Connecting"]_vars

\* A session that went Connecting -> Streaming -> Completed with a chunk counted.
C1_Witness ==
    /\ stream_receiver # 0
    /\ Phase = "Completed"
    /\ stream_status.chunks_received > 0
    /\ "StreamComplete" \in {emitted[stream_receiver][i] :
                               i \in DOMAIN emitted[stream_receiver]}

\* The step is update taking one event of the current session off the channel.
EventApplied ==
    /\ stream_receiver # 0
    /\ stream_receiver' = stream_receiver
    /\ chan[stream_receiver] # <<>>
    /\ chan'[stream_receiver] = Tail(chan[stream_receiver])

\* C9: within one session the two counters never decrease; applying
\* ChunkReceived{size} adds exactly 1 and exactly size, and no other step of
\* the session changes them.
C9_CountersMonotone ==
    [][stream_receiver' = stream_receiver =>
         LET old == stream_status
             new == stream_status'
         IN IF EventApplied /\ Head(chan[stream_receiver]).type = "ChunkReceived"
            THEN /\ new.chunks_received = old.chunks_received + 1
                 /\ new.total_bytes_received =
                      old.total_bytes_received + Head(chan[stream_receiver]).size
            ELSE /\ new.chunks_received = old.chunks_received
                 /\ new.total_bytes_received = old.total_bytes_received]_vars

\* Two chunks counted, one of them empty, and the session still streaming.
C9_Witness ==
    /\ stream_receiver # 0
    /\ stream_status.is_streaming
    /\ stream_status.chunks_received = 2
    /\ stream_status.total_bytes_received = MaxChunkSize

\* C10: one ChunkReceived is sent per chunk pulled, and once the consumer has
\* applied StreamComplete of the session it holds, its counters are the number
\* of chunks of the asset and the sum of their sizes.
C10_CompletedCounts ==
    /\ \A id \in Sessions : Count(emitted[id], "ChunkReceived") = Len(pulled[id])
    /\ stream_receiver # 0 /\ Phase = "Completed" =>
         /\ stream_status.chunks_received = Len(pulled[stream_receiver])
         /\ stream_status.total_bytes_received = Sum(pulled[stream_receiver])

\* Completed applied after two chunks of different sizes.
C10_Witness ==
    /\ stream_receiver # 0
    /\ Phase = "Completed"
    /\ pc[stream_receiver] = "done"
    /\ Len(pulled[stream_receiver]) = 2
    /\ Sum(pulled[stream_receiver]) = MaxChunkSize
    /\ stream_status.chunks_received = 2

\* The first push_chunk call of a session is made in this step: the write of
\* the buffered prefix.
BulkWriteStep(id) ==
    writes[id] = <<>> /\ writes'[id] # <<>>

\* The step pulls the chunk with which the buffer first reaches the threshold.
AtThresholdCrossing(id) ==
    /\ pulled'[id] # pulled[id]
    /\ Len(buffer[id]) < PREBUFFER_SIZE
    /\ Len(writes'[id][1]) >= PREBUFFER_SIZE

\* The step pulls nothing (the input has ended) and the threshold was not reached.
AtEndOfInput(id) ==
    /\ pulled'[id] = pulled[id]
    /\ Len(writes'[id][1]) < PREBUFFER_SIZE

\* C2: the buffered prefix reaches the sink through exactly one bulk write,
\* made at the chunk where the buffer first reaches the prebuffer threshold,
\* or at end-of-input if the threshold is never reached: never at both, and
\* never at neither when a non-empty asset was fetched without error.
C2_OneBulkWrite ==
    /\ [][\A id \in Sessions :
            /\ BulkWriteStep(id) => AtThresholdCrossing(id) \/ AtEndOfInput(id)
            /\ Len(writes'[id]) > Len(writes[id]) /\ pulled'[id] = pulled[id]
                 => writes[id] = <<>>]_vars
    /\ [](\A id \in Sessions :
            result[id] = "Ok" /\ Sum(pulled[id]) > 0 => writes[id] # <<>>)

WrittenSizes(id) ==
    [i \in DOMAIN writes[id] |-> Len(writes[id][i])]

\* C3: when a stream-processing function returns Ok, the sizes of the buffers
\* handed to push_chunk add up to the sizes of the chunks pulled.
C3_ByteConservation ==
    \A id \in Sessions :
      pc[id] = "returned" /\ result[id] = "Ok" =>
        Sum(WrittenSizes(id)) = Sum(pulled[id])

\* A function returned Ok after a bulk write and a chunk forwarded on its own.
C3_Witness ==
    /\ pc[1] = "returned"
    /\ result[1] = "Ok"
    /\ Len(writes[1]) >= 2
    /\ Sum(pulled[1]) > PREBUFFER_SIZE
    /\ Len(pulled[1]) = FnMaxChunks

\* C4: over the run of a session's task VideoStreamer::new constructs at most
\* one streamer.
C4_OneSinkPerSession ==
    \A id \in Sessions : created[id] <= 1

\* C5: when a chunk pull fails before the prebuffer threshold is reached, the
\* session sends a single StreamError (and no StreamComplete), nothing was
\* ever written, and no streamer was constructed for the session.
C5_EarlyFetchError ==
    \A id \in Sessions :
      result[id] = "Failed to fetch chunk" /\ Sum(pulled[id]) < PREBUFFER_SIZE =>
        /\ writes[id] = <<>>
        /\ pc[id] = "done" => /\ Count(emitted[id], "StreamError") = 1
                              /\ Count(emitted[id], "StreamComplete") = 0
        /\ created[id] = 0
        /\ first_streamer[id].state = "None"
        /\ sink[id].state = "None"

\* C6: VideoStreamerReady is sent only after a chunk was received, the sink
\* constructed and the buffered prefix pushed to it.
C6_ReadyAfterPush ==
    \A id \in Sessions :
      Count(emitted[id], "VideoStreamerReady") > 0 =>
        /\ pulled[id] # <<>>
        /\ created[id] > 0
        /\ writes[id] # <<>>

\* The last thing the streamer's AppSrc took is end-of-stream.
EosSignalledLast(vs) ==
    /\ vs.is_eos
    /\ vs.appsrc # <<>>
    /\ vs.appsrc[Len(vs.appsrc)].kind = "eos"

\* C7: once StreamComplete is sent, every streamer constructed for the session
\* was told end-of-stream after its last write; and a failed end-of-stream
\* makes the session end with StreamError, never StreamComplete.
C7_EosBeforeCompleted ==
    \A id \in Sessions :
      /\ Count(emitted[id], "StreamComplete") > 0 =>
           \A vs \in {first_streamer[id], sink[id]} :
             vs.state # "None" => EosSignalledLast(vs)
      /\ result[id] = "Failed to signal end of stream" =>
           /\ Count(emitted[id], "StreamComplete") = 0
           /\ pc[id] = "done" => Count(emitted[id], "StreamError") = 1

\* C8: once the consumer has applied StreamComplete of the session it holds,
\* the streamer that received the data is still playing (not dropped).
C8_SinkAliveAfterCompleted ==
    stream_receiver # 0 /\ Phase = "Completed" =>
      sink[stream_receiver].state = "Playing"

\* The size of the first k chunks.
SumTo(sizes, k) ==
    Sum(SubSeq(sizes, 1, k))

\* The index of the first chunk at which the cumulative size reaches the
\* prebuffer threshold, 0 when it never does.
CrossingIndex(sizes) ==
    IF \E k \in 1..Len(sizes) : SumTo(sizes, k) >= PREBUFFER_SIZE
    THEN CHOOSE k \in 1..Len(sizes) :
           /\ SumTo(sizes, k) >= PREBUFFER_SIZE
           /\ \A j \in 1..(k - 1) : SumTo(sizes, j) < PREBUFFER_SIZE
    ELSE 0

\* C11: for an asset that reaches the threshold, the first write is the
\* concatenation of the chunks up to and including the one at which the
\* cumulative size first reaches the threshold, every later chunk is a write
\* of its own, in pull order, and the buffer stays empty from the first write
\* on; a function that returns Ok has made that first write.
C11_PrefixThenForward ==
    \A id \in Sessions :
      LET k == CrossingIndex(pulled[id]) IN
      k > 0 =>
        /\ writes[id] # <<>> =>
              /\ writes[id][1] = ChunkBytes(0, SumTo(pulled[id], k))
              /\ Len(writes[id]) = 1 + Len(pulled[id]) - k
              /\ \A j \in 2..Len(writes[id]) :
                    writes[id][j] = ChunkBytes(SumTo(pulled[id], k + j - 2),
                                               pulled[id][k + j - 1])
              /\ buffer[id] = <<>>
        /\ pc[id] = "returned" /\ result[id] = "Ok" => writes[id] # <<>>

\* server.stream_data returned Ok: the task holds the chunk sequence.
StreamObtained(id) ==
    \/ pc[id] \in {"collect", "create_pipeline", "keep_alive", "returned"}
    \/ pc[id] = "done" /\ result[id] # "none"

\* server.stream_data returned Err: the task ended after create_video_streamer
\* without a stream-processing function having run.
StreamDataFailed(id) ==
    pc[id] = "done" /\ result[id] = "none" /\ created[id] > 0

\* C12: ServerConnected is sent only once the chunk sequence was obtained from
\* the storage source; when obtaining it fails the session sends StreamError
\* without ever having sent ServerConnected, and pulls no chunk.
C12_ConnectedAfterStream ==
    \A id \in Sessions :
      /\ Count(emitted[id], "ServerConnected") > 0 => StreamObtained(id)
      /\ StreamDataFailed(id) =>
           /\ Count(emitted[id], "ServerConnected") = 0
           /\ Count(emitted[id], "StreamError") = 1
           /\ pulled[id] = <<>>

\* Server::new returned Err, or its task ended without sending a result.
InitFailed(id) ==
    server_rx[id] \in {"Err", "Closed"}

\* C13: after a failed initialisation the task sends exactly one StreamError
\* and ends: the result is not asked for again, stream_data is not called, no
\* streamer is constructed, nothing is pulled or written, and no event follows.
C13_InitFailureTerminates ==
    /\ [](\A id \in Sessions :
            InitFailed(id) =>
              /\ pc[id] \in {"wait_for_server", "done"}
              /\ emitted[id] = (IF pc[id] = "done" THEN <<"StreamError">> ELSE <<>>)
              /\ created[id] = 0
              /\ first_streamer[id] = NoStreamer
              /\ sink[id] = NoStreamer
              /\ result[id] = "none"
              /\ pulled[id] = <<>>
              /\ writes[id] = <<>>)
    /\ [][\A id \in Sessions :
            InitFailed(id) =>
              /\ server_rx'[id] = server_rx[id]
              /\ pc[id] = "done" => pc'[id] = "done" /\ emitted'[id] = emitted[id]]_vars

\* The init task ended without a result and the consumer applied the error.
C13_Witness ==
    \E id \in Sessions :
      /\ server_rx[id] = "Closed"
      /\ pc[id] = "done"
      /\ stream_receiver = id
      /\ Phase = "Error"
      /\ chan[id] = <<>>

\* The events of a session still queued on its channel, as their kinds.
ChanTypes(id) ==
    [i \in DOMAIN chan[id] |-> chan[id][i].type]

TerminalEvents ==
    {"StreamComplete", "StreamError"}

\* C14: the events of the session the consumer holds are queued in the order
\* the task sent them and applied in that order (the consumer's state is what
\* the first a events sent give, the rest being still queued); ServerConnected
\* is sent before every ChunkReceived, and the terminal event is sent last, so
\* it is applied after every ChunkReceived.
C14_EventOrder ==
    stream_receiver # 0 =>
      LET r == stream_receiver
          e == emitted[r]
          a == Len(e) - Len(chan[r])
          done == SubSeq(e, 1, a)
          over == \E i \in 1..a : done[i] \in TerminalEvents
      IN
      /\ a >= 0
      /\ ChanTypes(r) = SubSeq(e, a + 1, Len(e))
      /\ \A i \in DOMAIN e :
            /\ e[i] = "ChunkReceived" => \E j \in 1..(i - 1) : e[j] = "ServerConnected"
            /\ e[i] \in TerminalEvents => i = Len(e)
      /\ stream_status.chunks_received = Count(done, "ChunkReceived")
      /\ stream_status.total_bytes_received =
            SumTo(pulled[r], Count(done, "ChunkReceived"))
      /\ stream_status.is_streaming = (Count(done, "ServerConnected") > 0 /\ ~over)
      /\ is_connecting = (Count(done, "ServerConnected") = 0 /\ ~over)
      /\ (stream_status.error_message # "None") = (Count(done, "StreamError") > 0)
      /\ stream_status.chunks_received > 0 => ~is_connecting
      /\ over => stream_status.chunks_received = Count(e, "ChunkReceived")

\* All five kinds of event of a session applied, two chunks among them, the
\* first one empty.
C14_Witness ==
    /\ stream_receiver # 0
    /\ chan[stream_receiver] = <<>>
    /\ emitted[stream_receiver] = <<"ServerConnected", "VideoStreamerReady",
                                    "ChunkReceived", "ChunkReceived", "StreamComplete">>
    /\ pulled[stream_receiver] = <<0, MaxChunkSize>>
    /\ stream_status.total_bytes_received = MaxChunkSize

\* Events are queued for the consumer.
Queued ==
    stream_receiver # 0 /\ chan[stream_receiver] # <<>>

\* C15: an activation of update leaves its event loop only when nothing is
\* queued at that time; while something is queued its next step applies the oldest event,
\* and when nothing is queued it can go on at once (try_recv does not wait).
C15_DrainsAll ==
    /\ [][app_pc = "events" /\ app_pc' # "events" => ~Queued]_vars
    /\ [][app_pc = "events" /\ Queued /\ appVars' # appVars => EventApplied]_vars
    /\ [](app_pc = "events" => IF Queued THEN ENABLED UpdateRecv
                                          ELSE ENABLED UpdateDrained)

\* An activation that began before the end of the session has emptied the
\* channel, the terminal event included.
C15_Witness ==
    /\ app_pc = "panels"
    /\ repaint_requested
    /\ stream_receiver # 0
    /\ chan[stream_receiver] = <<>>
    /\ stream_status.chunks_received = 2
    /\ stream_status.error_message # "None"

\* The session's task was spawned and the consumer no longer holds its receiver.
Detached(id) ==
    pc[id] # "unspawned" /\ stream_receiver # id

\* The step is a send of session id.
SendStep(id) ==
    Len(emitted'[id]) > Len(emitted[id])

\* What makes the task send StreamError from where it is.
ErrorCause(id) ==
    \/ pc[id] = "wait_for_server" /\ InitFailed(id)
    \/ pc[id] \in {"create_video_streamer", "stream_data"}
    \/ pc[id] = "returned" /\ result[id] \notin {"Ok", "none"}

AppliedEvents(id) ==
    SubSeq(emitted[id], 1, Len(emitted[id]) - Len(chan[id]))

\* C17: whatever session was superseded before, the channel the consumer
\* reads holds only sends of the session it holds, and its counters, flags
\* and error message are what the applied events of that session alone give.
C17_OnlyNewSession ==
    stream_receiver # 0 =>
      LET r == stream_receiver
          done == AppliedEvents(r)
          over == \E i \in DOMAIN done : done[i] \in TerminalEvents
      IN
      /\ ChanTypes(r) = SubSeq(emitted[r], Len(done) + 1, Len(emitted[r]))
      /\ stream_status.chunks_received = Count(done, "ChunkReceived")
      /\ stream_status.total_bytes_received =
            SumTo(pulled[r], Count(done, "ChunkReceived"))
      /\ stream_status.is_streaming = (Count(done, "ServerConnected") > 0 /\ ~over)
      /\ is_connecting = (Count(done, "ServerConnected") = 0 /\ ~over)
      /\ (stream_status.error_message # "None") = (Count(done, "StreamError") > 0)
      /\ is_playing = (Count(done, "VideoStreamerReady") > 0)

\* C18: once a session is superseded its task pulls no chunk, constructs no
\* streamer and makes no push_chunk call any more, and no streamer of the
\* session is left playing.
C18_CancelAborts ==
    /\ [][\A id \in Sessions :
            Detached(id) =>
              /\ pulled'[id] = pulled[id]
              /\ created'[id] = created[id]
              /\ writes'[id] = writes[id]]_vars
    /\ [](\A id \in Sessions :
            Detached(id) =>
              /\ first_streamer[id].state # "Playing"
              /\ sink[id].state # "Playing")

\* C19: a session blocked inside its stream-processing function never keeps
\* another session's tasks from their next step: every session that has not
\* ended can be run by a worker.
C19_NoStarvation ==
    \A id \in Sessions :
      pc[id] \notin {"unspawned", "done"} =>
        ENABLED (WorkerFree(id) /\ TaskStep(id))

\* C20: the capture file belongs to one session: it never holds the bytes of
\* two sessions.
C20_CaptureFilePerSession ==
    Cardinality(complete_file.writers) <= 1

\* The buffers the streamer's AppSrc took, in order.
AcceptedBuffers(vs) ==
    LET idx == {i \in DOMAIN vs.appsrc : vs.appsrc[i].kind = "buffer"}
        nth(k) == CHOOSE i \in idx : Cardinality({j \in idx : j <= i}) = k
    IN [k \in 1..Cardinality(idx) |-> vs.appsrc[nth(k)].data]

\* C21: when the AppSrc rejects a pushed buffer, with any flow error, the
\* function returns the push error, so that the session ends with StreamError
\* and never sends StreamComplete: a session is completed only if every
\* buffer handed to push_chunk was taken.
C21_WriteFailureIsError ==
    \A id \in Sessions :
      AcceptedBuffers(sink[id]) # writes[id] =>
        /\ pc[id] \in {"returned", "done"}
        /\ result[id] = "Failed to push chunk to video streamer"
        /\ Count(emitted[id], "StreamComplete") = 0
        /\ pc[id] = "done" => Count(emitted[id], "StreamError") = 1

\* VideoStreamer::new failed, in create_video_streamer or in the second phase
\* of the stream-processing function.
ConstructionFailed(id) ==
    \/ result[id] = "Failed to create video streamer"
    \/ /\ pc[id] = "done"
       /\ result[id] = "none"
       /\ server_rx[id] = "Ok"
       /\ created[id] = 0

\* C22: a failed construction of the streamer ends the session with one
\* StreamError that carries the failure and no StreamComplete; nothing is
\* written or signalled on any streamer of the session; the other session's
\* tasks and the consumer can go on.
C22_ConstructionFailure ==
    \A id \in Sessions :
      ConstructionFailed(id) =>
        /\ writes[id] = <<>>
        /\ sink[id] = NoStreamer
        /\ first_streamer[id].appsrc = <<>>
        /\ ~first_streamer[id].is_eos
        /\ Count(emitted[id], "StreamComplete") = 0
        /\ pc[id] = "done" =>
             /\ Count(emitted[id], "StreamError") = 1
             /\ emitted[id][Len(emitted[id])] = "StreamError"
        /\ \A i \in DOMAIN chan[id] :
             chan[id][i].type = "StreamError" =>
               chan[id][i].error = "Failed to create video streamer"
        /\ stream_receiver = id /\ stream_status.error_message # "None" =>
             stream_status.error_message = "Failed to create video streamer"
        /\ \A other \in Sessions \ {id} :
             pc[other] \notin {"unspawned", "done"} => ENABLED TaskStep(other)
        /\ app_pc = "idle" => ENABLED UpdateBegin

\* The second construction failed after a chunk was collected, and the
\* consumer shows the error.
C22_Witness ==
    \E id \in Sessions :
      /\ result[id] = "Failed to create video streamer"
      /\ pc[id] = "done"
      /\ pulled[id] # <<>>
      /\ stream_receiver = id
      /\ stream_status.error_message = "Failed to create video streamer"

\* C23: for an empty asset (no chunk, or only empty chunks) the
\* stream-processing function constructs no streamer and writes nothing.
C23_EmptyAssetNoSink ==
    \A id \in Sessions :
      Sum(pulled[id]) = 0 =>
        /\ writes[id] = <<>>
        /\ sink[id] = NoStreamer

\* C24: an activation of update that ends with the session connecting or
\* streaming has asked for another activation (ctx.request_repaint).
C24_KeepsPolling ==
    [][app_pc = "panels" /\ app_pc' = "idle"
         /\ (is_connecting' \/ stream_status'.is_streaming)
       => repaint_requested']_vars

\* The session state the consumer owns.
SessionState ==
    <<stream_status, is_connecting, is_playing, current_memory_usage>>

\* What only the tasks of a session write: their places, their locals, their
\* streamers and the capture file.
TaskSide ==
    <<server_rx, pc, fnVars, first_streamer, histVars, complete_file>>

\* The step is one of a background task (connect_and_stream, which spawns the
\* tasks, replaces the receiver).
TaskMoved ==
    stream_receiver' = stream_receiver /\ TaskSide' # TaskSide

\* C25: no step of a session's tasks changes the session state; it changes
\* only when update applies an event or connect_and_stream starts a session.
C25_OnlyConsumerMutates ==
    [][/\ TaskMoved => SessionState' = SessionState
       /\ SessionState' # SessionState =>
            EventApplied \/ stream_receiver' # stream_receiver]_vars

\* The task of the session ran to its end, all its events are still queued
\* and the consumer's state is as connect_and_stream left it.
C25_Witness ==
    /\ stream_receiver # 0
    /\ pc[stream_receiver] = "done"
    /\ result[stream_receiver] = "Ok"
    /\ Len(chan[stream_receiver]) = Len(emitted[stream_receiver])
    /\ Len(pulled[stream_receiver]) = MaxChunks
    /\ is_connecting
    /\ stream_status = NewStatus

\* C26: a task that ran to its end has sent exactly one terminal event, as
\* its last event; a terminal event is never followed by another event, so
\* StreamComplete and StreamError are never both sent.
C26_OneTerminalEvent ==
    \A id \in Sessions :
      LET e == emitted[id] IN
      /\ \A i \in DOMAIN e : e[i] \in TerminalEvents => i = Len(e)
      /\ pc[id] = "done" => e # <<>> /\ e[Len(e)] \in TerminalEvents
      /\ e # <<>> /\ e[Len(e)] \in TerminalEvents => pc[id] = "done"
      /\ Count(e, "StreamComplete") + Count(e, "StreamError") <= 1

\* A task ended by a failed pull after a chunk: StreamError is its last event.
C26_Witness ==
    \E id \in Sessions :
      /\ pc[id] = "done"
      /\ result[id] = "Failed to fetch chunk"
      /\ emitted[id] = <<"ServerConnected", "VideoStreamerReady",
                         "ChunkReceived", "StreamError">>

\* C27: with tasks that are run and a consumer that keeps being activated,
\* whenever the consumer shows a session connecting or streaming it later
\* shows neither: the session ended, or was replaced by one that ended.
C27_SessionsTerminate ==
    (is_connecting \/ stream_status.is_streaming)
      ~> (~is_connecting /\ ~stream_status.is_streaming)

\* The second session of the run is shown completed, its chunk counted.
C27_Witness ==
    /\ stream_receiver # 0
    /\ spawned = stream_receiver
    /\ spawned + 1 \notin Sessions
    /\ ~is_connecting
    /\ ~stream_status.is_streaming
    /\ stream_status.error_message = "None"
    /\ stream_status.chunks_received = LiveMaxChunks
    /\ stream_status.total_bytes_received = MaxChunkSize

\* C28: right after connect_and_stream the consumer's session state is that
\* of a freshly started session, is_playing included.
C28_ConnectClearsState ==
    [][stream_receiver' # stream_receiver =>
         /\ stream_status' = NewStatus
         /\ is_connecting'
         /\ video_streamer' = "None"
         /\ current_memory_usage' = 0
         /\ ~is_playing']_vars

RECURSIVE Flatten(_)
Flatten(seqs) ==
    IF seqs = <<>> THEN <<>> ELSE Head(seqs) \o Flatten(Tail(seqs))

\* C29: when a stream-processing function returns Ok, the buffers handed to
\* push_chunk, one after the other, are the bytes of the pulled chunks in
\* pull order: nothing twice, nothing out of place, nothing missing.
C29_BytesInOrder ==
    \A id \in Sessions :
      pc[id] = "returned" /\ result[id] = "Ok" =>
        Flatten(writes[id]) = ChunkBytes(0, Sum(pulled[id]))

\* A function returned Ok after three writes of different bytes, the first
\* one made of two chunks.
C29_Witness ==
    /\ pc[1] = "returned"
    /\ result[1] = "Ok"
    /\ Len(writes[1]) = 3
    /\ \A i \in 1..3 : writes[1][i] # <<>>
    /\ Len(writes[1][1]) > Len(writes[1][2])
    /\ pulled[1][1] < PREBUFFER_SIZE

\* The buffers the appsrc accepted, in order.
AppSrcBuffers(vs) ==
    SelectSeq(vs.appsrc, LAMBDA e : e.kind = "buffer")

PushChunkCalled ==
    Len(writes'[1]) = Len(writes[1]) + 1

SignalCalled ==
    chunk_count'[1] = chunk_count[1] + 1 /\ writes'[1] = writes[1]

\* C30: signal_end_of_stream leaves the streamer ended; on an ended streamer
\* every push_chunk returns "Stream has ended", and no call adds a buffer to
\* what the appsrc accepted.
C30_NothingAfterEos ==
    [][/\ SignalCalled => sink'[1].is_eos
       /\ sink[1].is_eos =>
            /\ sink'[1].is_eos
            /\ AppSrcBuffers(sink'[1]) = AppSrcBuffers(sink[1])
            /\ PushChunkCalled => result'[1] = "Stream has ended"]_vars

\* A buffer was accepted, end-of-stream was signalled, and a later
\* push_chunk of a non-empty chunk was turned away.
C30_Witness ==
    /\ pc[1] = "streamer"
    /\ chunk_count[1] = 3
    /\ Len(writes[1]) = 2
    /\ writes[1][2] # <<>>
    /\ sink[1].appsrc = <<AppSrcBuffer(writes[1][1]), AppSrcEos>>
    /\ sink[1].is_eos
    /\ result[1] = "Stream has ended"

\* C31: the consumer never shows is_connecting and is_streaming together, and
\* while an error message is shown both are false.
C31_FlagsExclusive ==
    /\ ~(is_connecting /\ stream_status.is_streaming)
    /\ stream_status.error_message # "None" =>
         ~is_connecting /\ ~stream_status.is_streaming

\* A session that was streaming and playing, with a chunk counted, ended in
\* an error that the consumer shows.
C31_Witness ==
    /\ stream_receiver # 0
    /\ stream_status.error_message # "None"
    /\ stream_status.chunks_received > 0
    /\ is_playing
    /\ ~is_connecting
    /\ ~stream_status.is_streaming

\* C32: is_eos of a streamer starts false, is true after any
\* signal_end_of_stream call, also one whose end_of_stream failed, and once
\* true stays true.
C32_EosMonotone ==
    /\ \A id \in Sessions : ~sink[id].is_eos
    /\ [][/\ SignalCalled => sink'[1].is_eos
          /\ result'[1] = "Failed to signal end of stream" => sink'[1].is_eos
          /\ \A id \in Sessions : sink[id].is_eos => sink'[id].is_eos]_vars

\* After three calls the appsrc has taken nothing, no end-of-stream either
\* (the signal_end_of_stream call failed there), and yet the flag is set and
\* the last push_chunk was turned away.
C32_Witness ==
    /\ pc[1] = "streamer"
    /\ chunk_count[1] = 3
    /\ Len(writes[1]) = 2
    /\ sink[1].appsrc = <<>>
    /\ sink[1].is_eos
    /\ result[1] = "Stream has ended"

====
